---- MODULE Spec2Model ----
(***************************************************************************)
(* De-identification and chunking pipeline (src/app).                      *)
(*                                                                         *)
(* A text is a sequence of one-character strings.  The chunker             *)
(* (core/chunk.py) is a pure function and is modelled by operators that    *)
(* follow its loops; SpecChunk applies it to every text over Alphabet.     *)
(***************************************************************************)
EXTENDS Integers, Sequences, FiniteSets, TLC

\* SpecChunk: one call of chunk_text and one re-chunking of its output
VARIABLES text, max_chars, chunks, rejoined, rechunked, phase

\* Spec: one run of the ingest command (cli.py)
VARIABLES
    pc,                  \* where the run is: in ingest, or in process_file's loops
    input,               \* --input, the paths given
    secret,              \* --secret
    env_secret,          \* ANONYMIZATION_SECRET
    max_chars_per_chunk, \* --max-chars-per-chunk
    out_dir,             \* whether the output's directory has been made
    secret_value,        \* the secret in use
    inputs_list,         \* cfg.inputs, the files discovered
    writer_fh,           \* CompressedJsonlWriter._fh: "none", "open" or "closed"
    out,                 \* the lines the output stream has taken, as records
    file_idx,            \* how many files the loop of ingest has taken
    doc_ids,             \* the uuid4 drawn for each file taken, in order
    locals,              \* the locals of the running process_file
    failed,              \* the files whose process_file raised, with the cause
    write_faults,        \* how many writes have raised
    exit_status,         \* <<>> while running, then <<code>>
    file_lines,          \* the written lines a reader gets, in order, from the
                         \* output file once the command has ended: none before
    file_damaged         \* whether the reader then gets lines no write put there

\* SpecAnon: one call of Anonymizer.anonymize
VARIABLES raw_text, segments, anonymized, anon_phase

\* SpecGen: the frame of one call of chunk_text run step by step (its
\* arguments, its locals, the chunks yielded so far, and where it stands)
VARIABLE gen

chunk_vars == <<text, max_chars, chunks, rejoined, rechunked, phase>>
cli_vars == <<pc, input, secret, env_secret, max_chars_per_chunk, out_dir,
              secret_value, inputs_list, writer_fh, out, file_idx, doc_ids,
              locals, failed, write_faults, exit_status, file_lines, file_damaged>>
anon_vars == <<raw_text, segments, anonymized, anon_phase>>
vars == <<chunk_vars, cli_vars, anon_vars, gen>>

\* what the steps of one specification leave alone: the others' variables
not_cli_vars == <<chunk_vars, anon_vars, gen>>
not_chunk_vars == <<cli_vars, anon_vars, gen>>
not_anon_vars == <<chunk_vars, cli_vars, gen>>
not_gen_vars == <<chunk_vars, cli_vars, anon_vars>>

(* ------------------------------ bounds -------------------------------- *)

\* longest text handed to chunk_text in SpecChunk
MaxLen == 7
\* largest max_chars handed to chunk_text in SpecChunk
MaxChars == 4
\* most paths given with --input
MaxInputs == 2
\* most writes that raise in one run
MaxWriteFaults == 1
\* most words of a text handed to anonymize in SpecAnon
MaxWords == 3
\* longest text of SpecGen, and the least max_chars there is -MaxNegChars
MaxStepLen == 5
MaxNegChars == 2
\* the iterations of one hard-split loop that SpecGen follows: more than any
\* loop that advances needs
MaxIters == MaxStepLen + 1

\* characters of the texts: a letter, a blank, and the two line-ending characters
Alphabet == {"a", " ", "\n", "\r"}

RECURSIVE TextsOfLen(_)
TextsOfLen(n) ==
    IF n = 0 THEN {<<>>}
    ELSE {Append(t, c) : t \in TextsOfLen(n - 1), c \in Alphabet}

Texts == UNION {TextsOfLen(n) : n \in 0..MaxLen}

(* ----------------------- str helpers (Python) -------------------------- *)

\* the characters str.strip() removes, among those the model's texts use
Whitespace == {" ", "\n", "\r", "\t"}

RECURSIVE lstrip(_)
lstrip(s) ==
    IF s # <<>> /\ s[1] \in Whitespace THEN lstrip(Tail(s)) ELSE s

RECURSIVE rstrip(_)
rstrip(s) ==
    IF s # <<>> /\ s[Len(s)] \in Whitespace
    THEN rstrip(SubSeq(s, 1, Len(s) - 1))
    ELSE s

strip(s) == rstrip(lstrip(s))

\* text.replace("\r\n", "\n"): non-overlapping occurrences, left to right
RECURSIVE replace_crlf(_)
replace_crlf(s) ==
    IF s = <<>> THEN <<>>
    ELSE IF Len(s) >= 2 /\ s[1] = "\r" /\ s[2] = "\n"
         THEN <<"\n">> \o replace_crlf(SubSeq(s, 3, Len(s)))
         ELSE <<s[1]>> \o replace_crlf(Tail(s))

\* .replace("\r", "\n")
replace_cr(s) == [i \in 1..Len(s) |-> IF s[i] = "\r" THEN "\n" ELSE s[i]]

normalize(s) == replace_cr(replace_crlf(s))

\* the paragraph separator, "\n\n"
Sep == <<"\n", "\n">>

IsSepAt(s, i) == i + 1 <= Len(s) /\ s[i] = "\n" /\ s[i + 1] = "\n"

\* text.split("\n\n"): cut at the leftmost separator, then split the rest
RECURSIVE split(_)
split(s) ==
    IF \E i \in 1..Len(s) : IsSepAt(s, i)
    THEN LET i == CHOOSE i \in 1..Len(s) :
                      IsSepAt(s, i) /\ \A j \in 1..(i - 1) : ~IsSepAt(s, j)
         IN  <<SubSeq(s, 1, i - 1)>> \o split(SubSeq(s, i + 2, Len(s)))
    ELSE <<s>>

\* "\n\n".join(parts)
RECURSIVE join(_)
join(parts) ==
    IF parts = <<>> THEN <<>>
    ELSE IF Len(parts) = 1 THEN parts[1]
    ELSE parts[1] \o Sep \o join(Tail(parts))

(* --------------------------- chunk_text -------------------------------- *)

\* a slip: the paragraphs that pass the filter are kept unstripped
paragraphs_unstripped(s) ==
    SelectSeq(split(normalize(s)), LAMBDA p : strip(p) # <<>>)

\* paragraphs = [p.strip() for p in text.split("\n\n") if p.strip()]
paragraphs(s) ==
    LET parts == split(normalize(s))
        stripped == [i \in 1..Len(parts) |-> strip(parts[i])]
    IN  SelectSeq(stripped, LAMBDA p : p # <<>>)

\* the generator's locals: the pending buffer, its running length, and the
\* chunks yielded so far
ChunkState0 == [current |-> <<>>, current_len |-> 0, out |-> <<>>]

\* flush(): yield the buffer joined by blank lines, then empty it
flush(st) ==
    IF st.current # <<>>
    THEN LET yield_text == strip(join(st.current))
         IN  [current |-> <<>>, current_len |-> 0,
              out |-> IF yield_text # <<>> THEN Append(st.out, yield_text)
                      ELSE st.out]
    ELSE st

\* a slip: the pending buffer is not flushed before the pieces are yielded
RECURSIVE hard_split_noflush(_, _, _, _)
hard_split_noflush(st, para, max, start) ==
    IF start < Len(para)
    THEN LET end == IF start + max < Len(para) THEN start + max ELSE Len(para)
             piece == SubSeq(para, start + 1, end)
             st1 == IF strip(piece) # <<>>
                    THEN [st EXCEPT !.out = Append(st.out, piece)]
                    ELSE st
         IN  hard_split_noflush(st1, para, max, end)
    ELSE st

\* the while loop of the hard split, from position start (0-based, as in the code)
RECURSIVE hard_split(_, _, _, _)
hard_split(st, para, max, start) ==
    IF start < Len(para)
    THEN LET end == IF start + max < Len(para) THEN start + max ELSE Len(para)
             piece == SubSeq(para, start + 1, end)
             st1 == IF strip(piece) # <<>>
                    THEN LET f == IF st.current # <<>> THEN flush(st) ELSE st
                         IN  [f EXCEPT !.out = Append(f.out, piece)]
                    ELSE st
         IN  hard_split(st1, para, max, end)
    ELSE st

\* a slip: the separator is left out of the length test
para_step_nosep(st, para, max) ==
    IF Len(para) > max
    THEN hard_split(st, para, max, 0)
    ELSE LET st1 == IF st.current_len + Len(para) > max
                    THEN flush(st)
                    ELSE st
         IN  [current |-> Append(st1.current, para),
              current_len |-> st1.current_len + Len(para)
                              + (IF st1.current_len > 0 THEN 2 ELSE 0),
              out |-> st1.out]

\* one iteration of "for para in paragraphs"
para_step(st, para, max) ==
    IF Len(para) > max
    THEN hard_split(st, para, max, 0)
    ELSE LET st1 == IF st.current_len + Len(para)
                        + (IF st.current # <<>> THEN 2 ELSE 0) > max
                    THEN flush(st)
                    ELSE st
         IN  [current |-> Append(st1.current, para),
              current_len |-> st1.current_len + Len(para)
                              + (IF st1.current_len > 0 THEN 2 ELSE 0),
              out |-> st1.out]

\* the generator's locals after the first k paragraphs
RECURSIVE para_loop(_, _, _)
para_loop(paras, k, max) ==
    IF k = 0 THEN ChunkState0
    ELSE para_step(para_loop(paras, k - 1, max), paras[k], max)

\* a slip: the final flush is missing
chunk_text_nofinal(s, max) ==
    IF s = <<>> THEN <<>>
    ELSE LET paras == paragraphs(s)
         IN  para_loop(paras, Len(paras), max).out

\* list(chunk_text(text, max_chars)), for max_chars >= 1
chunk_text(s, max) ==
    IF s = <<>> THEN <<>>
    ELSE LET paras == paragraphs(s)
             st == para_loop(paras, Len(paras), max)
         IN  IF st.current # <<>>
             THEN Append(st.out, strip(join(st.current)))
             ELSE st.out

(* ----------------------- Anonymizer (anonymize.py) --------------------- *)

\* the letters and digits the model's texts use
Letters == {"a", "b", "c", "x", "y", "z", "S", "C"}
Digits == {"0", "1", "2", "3", "4", "5", "6", "7", "8", "9"}

\* the three character classes of the EMAIL_ADDRESS pattern
LocalChars == Letters \cup Digits \cup {"_", ".", "+", "-"}
DomainChars == Letters \cup Digits \cup {"-"}
TailChars == DomainChars \cup {"."}

\* the offset at which the run of characters of cls that starts at offset i ends
RECURSIVE RunEnd(_, _, _)
RunEnd(s, i, cls) ==
    IF i < Len(s) /\ s[i + 1] \in cls THEN RunEnd(s, i + 1, cls) ELSE i

\* [local]+@[domain]+\.[tail]+ matched at offset i: the end offset, or -1.
\* Each greedy run is followed by a character outside its class, so only the
\* whole run can match.
EmailMatchEnd(s, i) ==
    LET e1 == RunEnd(s, i, LocalChars)
        e2 == RunEnd(s, e1 + 1, DomainChars)
        e3 == RunEnd(s, e2 + 1, TailChars)
    IN  IF /\ e1 > i /\ e1 < Len(s) /\ s[e1 + 1] = "@"
           /\ e2 > e1 + 1 /\ e2 < Len(s) /\ s[e2 + 1] = "."
           /\ e3 > e2 + 1
        THEN e3 ELSE -1

\* pattern.finditer(text) for EMAIL_ADDRESS, from offset pos: the leftmost
\* match, then the matches after its end
RECURSIVE email_finditer(_, _)
email_finditer(s, pos) ==
    LET starts == {i \in pos..(Len(s) - 1) : EmailMatchEnd(s, i) # -1}
    IN  IF starts = {} THEN <<>>
        ELSE LET i == CHOOSE i \in starts : \A j \in starts : i <= j
             IN  <<[start |-> i, end |-> EmailMatchEnd(s, i)]>>
                 \o email_finditer(s, EmailMatchEnd(s, i))

\* \w, among the characters the model's texts use
WordChars == Letters \cup Digits \cup {"_"}

IsWordAt(s, off) == off >= 0 /\ off < Len(s) /\ s[off + 1] \in WordChars

\* \b at offset off: a word character on exactly one side
IsBoundary(s, off) == IsWordAt(s, off - 1) # IsWordAt(s, off)

\* $ at offset off: the end of the text, or just before a last newline
IsDollar(s, off) == off = Len(s) \/ (off = Len(s) - 1 /\ s[Len(s)] = "\n")

\* 25[0-5]|2[0-4]\d|[01]?\d?\d matching the whole run of digits [from, to)
OctetOk(s, from, to) ==
    /\ to - from \in 1..3
    /\ to - from = 3 =>
          \/ s[from + 1] \in {"0", "1"}
          \/ s[from + 1] = "2" /\ s[from + 2] \in {"0", "1", "2", "3", "4"}
          \/ s[from + 1] = "2" /\ s[from + 2] = "5"
             /\ s[from + 3] \in {"0", "1", "2", "3", "4", "5"}

\* one octet at offset pos: the end of the run of digits, or -1
OctetEnd(s, pos) ==
    IF pos = -1 THEN -1
    ELSE LET e == RunEnd(s, pos, Digits)
         IN  IF OctetOk(s, pos, e) THEN e ELSE -1

\* one of the first three groups, octet\., at offset pos: the offset after
\* the dot, or -1.  An octet is followed by "." or by the end, so it is a
\* whole run of digits.
OctetDotEnd(s, pos) ==
    LET e == OctetEnd(s, pos)
    IN  IF e # -1 /\ e < Len(s) /\ s[e + 1] = "." THEN e + 1 ELSE -1

\* the ends the fourth group, octet(?:\.|$), can have at offset pos, the
\* first alternative first
LastGroupEnds(s, pos) ==
    LET e == OctetEnd(s, pos)
    IN  IF e = -1 THEN <<>>
        ELSE (IF e < Len(s) /\ s[e + 1] = "." THEN <<e + 1>> ELSE <<>>)
             \o (IF IsDollar(s, e) THEN <<e>> ELSE <<>>)

\* \b(?:octet(?:\.|$)){4}\b matched at offset i: the end offset, or -1
IpMatchEnd(s, i) ==
    LET ends == LastGroupEnds(s, OctetDotEnd(s, OctetDotEnd(s, OctetDotEnd(s, i))))
        ok == SelectSeq(ends, LAMBDA e : IsBoundary(s, e))
    IN  IF IsBoundary(s, i) /\ ok # <<>> THEN ok[1] ELSE -1

\* pattern.finditer(text) for IP_ADDRESS, from offset pos
RECURSIVE ip_finditer(_, _)
ip_finditer(s, pos) ==
    LET starts == {i \in pos..(Len(s) - 1) : IpMatchEnd(s, i) # -1}
    IN  IF starts = {} THEN <<>>
        ELSE LET i == CHOOSE i \in starts : \A j \in starts : i <= j
             IN  <<[start |-> i, end |-> IpMatchEnd(s, i)]>>
                 \o ip_finditer(s, IpMatchEnd(s, i))

\* the keys of PII_PATTERNS, in the dict's order
PII_PATTERNS == <<"EMAIL_ADDRESS", "PHONE_NUMBER", "IP_ADDRESS",
                  "CREDIT_CARD", "SSN", "DATE">>

\* pattern.finditer(text).  PHONE_NUMBER and SSN need three digits in a row,
\* CREDIT_CARD thirteen digits and DATE a "-" or a "/" between digits: the
\* model's texts hold none of these, so only two patterns can match.
pattern_finditer(entity_type, s) ==
    IF entity_type = "EMAIL_ADDRESS" THEN email_finditer(s, 0)
    ELSE IF entity_type = "IP_ADDRESS" THEN ip_finditer(s, 0)
    ELSE <<>>

\* the characters of an entity type's name
TypeChars(entity_type) ==
    CASE entity_type = "EMAIL_ADDRESS" ->
           <<"E", "M", "A", "I", "L", "_", "A", "D", "D", "R", "E", "S", "S">>
      [] entity_type = "IP_ADDRESS" ->
           <<"I", "P", "_", "A", "D", "D", "R", "E", "S", "S">>

\* a local part longer than a token: thirty-two letters
LongLocal == [i \in 1..32 |-> "a"]

\* hmac.new(key, (entity_type + "::" + value), sha256).hexdigest()[:16], for the
\* secrets and the values of the model
HmacHex16(secret_key, entity_type, value) ==
    CASE secret_key = "k1" /\ entity_type = "EMAIL_ADDRESS"
         /\ value = <<"1", ".", "1", ".", "1", ".", "1", "a", "@", "1", ".", "1", ".", "1", ".", "1">> ->
           <<"7", "d", "2", "5", "8", "9", "0", "c", "f", "0", "f", "2", "3", "8", "5", "f">>
      [] secret_key = "k1" /\ entity_type = "EMAIL_ADDRESS"
         /\ value = <<"1", ".", "1", ".", "1", ".", "1", "a", "@", "1", ".", "1", ".", "1", ".", "1", "a">> ->
           <<"a", "3", "8", "2", "6", "7", "b", "f", "3", "6", "2", "2", "d", "b", "3", "f">>
      [] secret_key = "k1" /\ entity_type = "EMAIL_ADDRESS"
         /\ value = <<"1", ".", "1", ".", "1", ".", "1", "a", "@", "b", ".", "c">> ->
           <<"f", "b", "4", "0", "2", "9", "3", "9", "f", "4", "5", "f", "4", "b", "2", "f">>
      [] secret_key = "k1" /\ entity_type = "EMAIL_ADDRESS"
         /\ value = <<"1", ".", "1", ".", "1", ".", "1", "a", "@", "b", ".", "c", "a">> ->
           <<"8", "0", "8", "8", "8", "c", "e", "5", "4", "a", "a", "c", "c", "3", "a", "7">>
      [] secret_key = "k1" /\ entity_type = "EMAIL_ADDRESS"
         /\ value = <<"a", "@", "1", ".", "1", ".", "1", ".", "1">> ->
           <<"9", "0", "8", "2", "a", "6", "b", "f", "3", "7", "d", "8", "9", "7", "a", "7">>
      [] secret_key = "k1" /\ entity_type = "EMAIL_ADDRESS"
         /\ value = <<"a", "@", "1", ".", "1", ".", "1", ".", "1", "a">> ->
           <<"7", "f", "9", "5", "5", "b", "6", "c", "4", "7", "d", "c", "0", "c", "9", "1">>
      [] secret_key = "k1" /\ entity_type = "EMAIL_ADDRESS"
         /\ value = <<"a", "@", "b", ".", "c">> ->
           <<"f", "0", "b", "c", "5", "0", "c", "7", "1", "f", "d", "1", "3", "d", "5", "5">>
      [] secret_key = "k1" /\ entity_type = "EMAIL_ADDRESS"
         /\ value = <<"a", "@", "b", ".", "c", "a">> ->
           <<"f", "0", "c", "5", "e", "8", "0", "e", "c", "3", "f", "e", "a", "5", "9", "d">>
      [] secret_key = "k1" /\ entity_type = "EMAIL_ADDRESS"
         /\ value = LongLocal \o <<"@", "b", ".", "c">> ->
           <<"c", "5", "c", "e", "f", "4", "9", "b", "c", "e", "4", "9", "b", "c", "0", "7">>
      [] secret_key = "k1" /\ entity_type = "EMAIL_ADDRESS"
         /\ value = LongLocal \o <<"@", "b", ".", "c", "a">> ->
           <<"d", "1", "8", "8", "f", "b", "5", "1", "c", "b", "6", "5", "e", "9", "6", "e">>
      [] secret_key = "k1" /\ entity_type = "EMAIL_ADDRESS"
         /\ value = <<"b", ".", "c", "a", "@", "1", ".", "1", ".", "1", ".", "1">> ->
           <<"4", "a", "b", "9", "5", "9", "2", "c", "d", "c", "0", "3", "6", "5", "e", "7">>
      [] secret_key = "k1" /\ entity_type = "EMAIL_ADDRESS"
         /\ value = <<"b", ".", "c", "a", "@", "1", ".", "1", ".", "1", ".", "1", "a">> ->
           <<"8", "f", "a", "e", "a", "b", "6", "8", "0", "6", "2", "5", "e", "7", "8", "a">>
      [] secret_key = "k1" /\ entity_type = "EMAIL_ADDRESS"
         /\ value = <<"b", ".", "c", "a", "@", "b", ".", "c">> ->
           <<"c", "a", "d", "c", "5", "c", "a", "4", "f", "0", "7", "6", "e", "7", "c", "1">>
      [] secret_key = "k1" /\ entity_type = "EMAIL_ADDRESS"
         /\ value = <<"b", ".", "c", "a", "@", "b", ".", "c", "a">> ->
           <<"2", "6", "7", "e", "e", "b", "8", "6", "a", "2", "a", "4", "3", "d", "1", "5">>
      [] secret_key = "k1" /\ entity_type = "EMAIL_ADDRESS"
         /\ value = <<"x", "@", "y", ".", "z">> ->
           <<"d", "b", "6", "1", "d", "f", "5", "6", "5", "c", "d", "2", "5", "a", "8", "9">>
      [] secret_key = "k1" /\ entity_type = "IP_ADDRESS"
         /\ value = <<"1", ".", "1", ".", "1", ".", "1">> ->
           <<"2", "a", "4", "b", "a", "e", "8", "c", "e", "3", "5", "b", "5", "2", "9", "3">>
      [] secret_key = "k2" /\ entity_type = "EMAIL_ADDRESS"
         /\ value = <<"a", "@", "b", ".", "c">> ->
           <<"3", "6", "5", "a", "a", "2", "0", "9", "e", "e", "4", "7", "1", "e", "b", "d">>
      [] secret_key = "k2" /\ entity_type = "EMAIL_ADDRESS"
         /\ value = <<"x", "@", "y", ".", "z">> ->
           <<"9", "f", "2", "f", "5", "9", "a", "f", "0", "0", "5", "d", "9", "8", "d", "e">>

\* _stable_token: "<TYPE:digest>"
stable_token(secret_key, entity_type, value) ==
    <<"<">> \o TypeChars(entity_type) \o <<":">>
    \o HmacHex16(secret_key, entity_type, value) \o <<">">>

\* s[a:b] for offsets a, b >= 0
Slice(s, a, b) == SubSeq(s, a + 1, IF b < Len(s) THEN b ELSE Len(s))

\* the matches of every pattern, in the order the loops collect them
\* the entities appended for the matches ms of one pattern
matches_of(entity_type, ms) ==
    [i \in 1..Len(ms) |->
        [type |-> entity_type, start |-> ms[i].start, end |-> ms[i].end]]

RECURSIVE collect(_, _)
collect(s, k) ==
    IF k = 0 THEN <<>>
    ELSE collect(s, k - 1)
         \o matches_of(PII_PATTERNS[k], pattern_finditer(PII_PATTERNS[k], s))

\* a slip: reverse is ignored and the order is always ascending
RECURSIVE sort_by_start_ascending(_, _)
sort_by_start_ascending(xs, reverse) ==
    IF xs = <<>> THEN <<>>
    ELSE LET x == xs[Len(xs)]
             rest == sort_by_start_ascending(SubSeq(xs, 1, Len(xs) - 1), reverse)
             before == {i \in 1..Len(rest) : rest[i].start <= x.start}
             n == IF before = {} THEN 0
                  ELSE CHOOSE i \in before : \A j \in before : j <= i
         IN  SubSeq(rest, 1, n) \o <<x>> \o SubSeq(rest, n + 1, Len(rest))

\* list.sort(key = start), stable; descending when reverse
RECURSIVE sort_by_start(_, _)
sort_by_start(xs, reverse) ==
    IF xs = <<>> THEN <<>>
    ELSE LET x == xs[Len(xs)]
             rest == sort_by_start(SubSeq(xs, 1, Len(xs) - 1), reverse)
             before == {i \in 1..Len(rest) :
                           IF reverse THEN rest[i].start >= x.start
                           ELSE rest[i].start <= x.start}
             n == IF before = {} THEN 0
                  ELSE CHOOSE i \in before : \A j \in before : j <= i
         IN  SubSeq(rest, 1, n) \o <<x>> \o SubSeq(rest, n + 1, Len(rest))

\* the loop that substitutes the tokens, segment k onwards
RECURSIVE replace_segments(_, _, _)
replace_segments(anonymized_text, segs, k) ==
    IF k > Len(segs) THEN anonymized_text
    ELSE replace_segments(
             Slice(anonymized_text, 0, segs[k].start) \o segs[k].token
             \o Slice(anonymized_text, segs[k].end, Len(anonymized_text)),
             segs, k + 1)

\* replaced_segments as the collecting loop leaves it: the span and the token
\* of each match
segments_of(secret_key, s, entities_out) ==
    [i \in 1..Len(entities_out) |->
        [start |-> entities_out[i].start,
         end |-> entities_out[i].end,
         token |-> stable_token(secret_key, entities_out[i].type,
                      Slice(s, entities_out[i].start, entities_out[i].end))]]

\* replaced_segments as the substitution loop walks it: sorted by start,
\* descending
replaced_segments(secret_key, s) ==
    sort_by_start(segments_of(secret_key, s, collect(s, Len(PII_PATTERNS))), TRUE)

\* Anonymizer(secret_key).anonymize(text): the rewritten text and the entities
anonymize(secret_key, s) ==
    IF s = <<>> THEN [text |-> s, entities |-> <<>>]
    ELSE [text |-> replace_segments(s, replaced_segments(secret_key, s), 1),
          entities |-> sort_by_start(collect(s, Len(PII_PATTERNS)), FALSE)]

(* ------------------- the files of the model (inputs) ------------------- *)

None == "<None>"

\* bool(s) for an optional string
Truthy(s) == s \notin {None, ""}

\* the texts the extraction collaborators hand over
TwoEmails == <<"a", "@", "b", ".", "c", "\n", "\n", "x", "@", "y", ".", "z">>
BlankPage == <<" ", "\n">>
ShortPage == <<"a", "a">>
TwoParas == <<"a", "a", "\n", "\n", "b", "b">>
EmailPage == <<"a", "@", "b", ".", "c">>
RowA == <<"S", " ", "|", " ", "C", "1", ":", "a">>
RowEmail == <<"S", " ", "|", " ", "C", "2", ":", "a", "@", "b", ".", "c">>
RowX == <<"S", " ", "|", " ", "C", "1", ":", "x">>
RowB == <<"S", " ", "|", " ", "C", "1", ":", "b">>

\* The file system: a directory "d" and the files.  units: the raw text of each
\* page of a PDF, or the lines extract_text_from_excel yields; raises_at: the
\* unit at which the extraction raises (0: never); readable: whether the file
\* can be opened for hashing.
Files ==
    [p \in {"d/a.pdf", "d/b.PDF", "d/c.xlsx", "d/n.txt", "e.xls", "f.pdf"} |->
        CASE p = "d/a.pdf" -> [suffix |-> ".pdf", readable |-> TRUE, raises_at |-> 0,
                               sha256 |-> "sha256:a",
                               units |-> <<TwoEmails, BlankPage, ShortPage>>]
          [] p = "d/b.PDF" -> [suffix |-> ".PDF", readable |-> TRUE, raises_at |-> 2,
                               sha256 |-> "sha256:b",
                               units |-> <<TwoParas, EmailPage>>]
          [] p = "d/c.xlsx" -> [suffix |-> ".xlsx", readable |-> TRUE, raises_at |-> 0,
                                sha256 |-> "sha256:c",
                                units |-> <<RowA, RowEmail, RowX>>]
          [] p = "d/n.txt" -> [suffix |-> ".txt", readable |-> TRUE, raises_at |-> 0,
                               sha256 |-> "sha256:n", units |-> <<>>]
          [] p = "e.xls" -> [suffix |-> ".xls", readable |-> TRUE, raises_at |-> 2,
                             sha256 |-> "sha256:e", units |-> <<RowA, RowB>>]
          [] p = "f.pdf" -> [suffix |-> ".pdf", readable |-> FALSE, raises_at |-> 0,
                             sha256 |-> "sha256:f", units |-> <<EmailPage>>]]

\* the paths --input may name: the directory, and files
InputPaths == {"d", "d/a.pdf", "d/n.txt", "e.xls", "f.pdf"}

\* Path.is_file()
is_file(path) == path \in DOMAIN Files

\* the files path.rglob("*") finds
rglob(path) == IF path = "d" THEN {"d/a.pdf", "d/b.PDF", "d/c.xlsx", "d/n.txt"} ELSE {}

\* the place of a path in the order of Path comparison
PathRank(path) ==
    CASE path = "d/a.pdf" -> 1 [] path = "d/b.PDF" -> 2 [] path = "d/c.xlsx" -> 3
      [] path = "d/n.txt" -> 4 [] path = "e.xls" -> 5 [] path = "f.pdf" -> 6

\* suffix.lower()
lower(suffix) == IF suffix = ".PDF" THEN ".pdf" ELSE suffix

(* ------------------------ io_utils.py ---------------------------------- *)

SUPPORTED_EXTS == {".pdf", ".xlsx", ".xls", ".xlsm"}

\* sorted(results)
RECURSIVE sorted(_)
sorted(paths) ==
    IF paths = {} THEN <<>>
    ELSE LET first == CHOOSE p \in paths : \A q \in paths : PathRank(p) <= PathRank(q)
         IN  <<first>> \o sorted(paths \ {first})

\* discover_input_files: a supported file, or the supported files under a
\* directory, sorted
discover_input_files(path) ==
    IF is_file(path)
    THEN IF lower(Files[path].suffix) \in SUPPORTED_EXTS THEN <<path>> ELSE <<>>
    ELSE sorted({p \in rglob(path) :
                    is_file(p) /\ lower(Files[p].suffix) \in SUPPORTED_EXTS})

\* compute_file_sha256, for a file that can be read
compute_file_sha256(path) == Files[path].sha256

\* CompressedJsonlWriter.write: one more line at the end of the stream
writer_write(lines, obj) == Append(lines, obj)

(* ------------------------ extraction collaborators --------------------- *)

\* extract_text_pages_from_pdf without OCR yields the page's text, or "" when
\* the text is whitespace only
page_text_of(raw) == IF strip(raw) # <<>> THEN raw ELSE <<>>

\* "\n".join(buffer)
RECURSIVE join_lines(_)
join_lines(buffer) ==
    IF buffer = <<>> THEN <<>>
    ELSE IF Len(buffer) = 1 THEN buffer[1]
    ELSE buffer[1] \o <<"\n">> \o join_lines(Tail(buffer))

(* ------------------------------ cli.py --------------------------------- *)

\* the default of --max-chars-per-chunk
DefaultMaxCharsPerChunk == 4000

\* the values of --max-chars-per-chunk the runs take: one that splits the
\* pages hard, one that separates paragraphs, one that buffers two rows, and
\* the default
PipelineMaxChars ==
    {MaxChars \div 2, 2 * MaxChars, 5 * MaxChars, DefaultMaxCharsPerChunk}

RECURSIVE SeqsOfLen(_, _)
SeqsOfLen(S, n) ==
    IF n = 0 THEN {<<>>}
    ELSE {Append(q, x) : q \in SeqsOfLen(S, n - 1), x \in S}

\* process_file's locals when no file is being processed
NoLocals == [file_id |-> 0, file_hash |-> "", unit_idx |-> 0, pending |-> <<>>,
             chunk_index |-> 0, buffer |-> <<>>, current_len |-> 0,
             chunk_counter |-> 0]

\* the run's variables in SpecChunk, which runs no ingest
CliIdle ==
    /\ pc = "idle" /\ input = <<>> /\ secret = None /\ env_secret = None
    /\ max_chars_per_chunk = DefaultMaxCharsPerChunk /\ out_dir = FALSE
    /\ secret_value = None /\ inputs_list = <<>> /\ writer_fh = "none"
    /\ out = <<>> /\ file_idx = 0 /\ doc_ids = <<>> /\ locals = NoLocals
    /\ failed = {} /\ write_faults = 0 /\ exit_status = <<>>
    /\ file_lines = <<>> /\ file_damaged = FALSE

\* the chunker's variables in Spec, which makes no separate call of it
ChunkIdle ==
    /\ text = <<>> /\ max_chars = 1 /\ chunks = <<>> /\ rejoined = <<>>
    /\ rechunked = <<>> /\ phase = "idle"

\* the frame of a call of chunk_text before its first step
GenFrame(s, max) ==
    [pc |-> "start", text |-> s, max_chars |-> max, paragraphs |-> <<>>,
     para_idx |-> 0, current |-> <<>>, current_len |-> 0, out |-> <<>>,
     start |-> 0, iters |-> 0]

\* no call of chunk_text is followed step by step
GenIdle == gen = [GenFrame(<<>>, 1) EXCEPT !.pc = "idle"]

\* the anonymizer's variables in the specifications that make no separate
\* call of it
AnonIdle == raw_text = <<>> /\ segments = <<>>
            /\ anonymized = [text |-> <<>>, entities |-> <<>>]
            /\ anon_phase = "idle"

\* the command line and the environment of one run
Init ==
    /\ ChunkIdle
    /\ AnonIdle
    /\ GenIdle
    /\ pc = "start"
    /\ input \in UNION {SeqsOfLen(InputPaths, n) : n \in 1..MaxInputs}
    /\ secret \in {None, "", "k1"}
    /\ env_secret \in {None, "k2"}
    /\ max_chars_per_chunk \in PipelineMaxChars
    /\ out_dir = FALSE
    /\ secret_value = None
    /\ inputs_list = <<>>
    /\ writer_fh = "none"
    /\ out = <<>>
    /\ file_idx = 0
    /\ doc_ids = <<>>
    /\ locals = NoLocals
    /\ failed = {}
    /\ write_faults = 0
    /\ exit_status = <<>>
    /\ file_lines = <<>> /\ file_damaged = FALSE

\* secret or os.getenv("ANONYMIZATION_SECRET")
secret_or_env == IF Truthy(secret) THEN secret ELSE env_secret

\* for p in input: inputs_list.extend(discover_input_files(p))
RECURSIVE discover_all(_)
discover_all(paths) ==
    IF paths = <<>> THEN <<>>
    ELSE discover_input_files(paths[1]) \o discover_all(Tail(paths))

\* a slip: only the secret is checked
config_error_secret_only(value, found) == ~Truthy(value)

\* the two checks of ingest that end in typer.Exit(code=2)
config_error(value, found) == ~Truthy(value) \/ found = <<>>

\* ingest up to a typer.Exit(code=2): the secret is missing, or no file is found
IngestConfigError ==
    /\ pc = "start"
    /\ config_error(secret_or_env, discover_all(input))
    /\ out_dir' = TRUE
    /\ exit_status' = <<2>>
    /\ pc' = "exit"
    /\ UNCHANGED <<input, secret, env_secret, max_chars_per_chunk, secret_value,
                   inputs_list, writer_fh, out, file_idx, doc_ids, locals,
                   failed, write_faults>>
    /\ UNCHANGED <<file_lines, file_damaged>>
    /\ UNCHANGED not_cli_vars

\* ingest up to CompressedJsonlWriter.__enter__: the output is opened, empty
IngestOpen ==
    /\ pc = "start"
    /\ ~config_error(secret_or_env, discover_all(input))
    /\ out_dir' = TRUE
    /\ secret_value' = secret_or_env
    /\ inputs_list' = discover_all(input)
    /\ writer_fh' = "open"
    /\ out' = <<>>
    /\ pc' = "files"
    /\ UNCHANGED <<input, secret, env_secret, max_chars_per_chunk, file_idx,
                   doc_ids, locals, failed, write_faults, exit_status>>
    /\ UNCHANGED <<file_lines, file_damaged>>
    /\ UNCHANGED not_cli_vars

\* the except clause of ingest: the failure is logged and the loop goes on
Caught(idx, cause) ==
    /\ failed' = failed \cup {[idx |-> idx, cause |-> cause]}
    /\ locals' = NoLocals
    /\ pc' = "files"

\* process_file returns
Returned ==
    /\ locals' = NoLocals
    /\ pc' = "files"
    /\ UNCHANGED failed

\* a slip: the Excel record has no entities
excel_record_no_entities(file_id, path, file_hash, chunk_counter, anon) ==
    [doc_id |-> file_id, source_path |-> path, file_sha256 |-> file_hash,
     file_type |-> "excel", page_number |-> None, chunk_index |-> chunk_counter,
     text |-> anon.text]

\* a slip: chunk_counter is not used and every Excel chunk has index 0
excel_record_index_zero(file_id, path, file_hash, chunk_counter, anon) ==
    [doc_id |-> file_id, source_path |-> path, file_sha256 |-> file_hash,
     file_type |-> "excel", page_number |-> None, chunk_index |-> 0,
     text |-> anon.text, entities |-> anon.entities]

\* the record of an Excel chunk
excel_record(file_id, path, file_hash, chunk_counter, anon) ==
    [doc_id |-> file_id, source_path |-> path, file_sha256 |-> file_hash,
     file_type |-> "excel", page_number |-> None, chunk_index |-> chunk_counter,
     text |-> anon.text, entities |-> anon.entities]

\* the record of a PDF chunk
pdf_record(file_id, path, file_hash, page_index, chunk_index, anon) ==
    [doc_id |-> file_id, source_path |-> path, file_sha256 |-> file_hash,
     file_type |-> "pdf", page_number |-> page_index + 1,
     chunk_index |-> chunk_index, text |-> anon.text, entities |-> anon.entities]

\* writer.write(record): the line is appended, or the write raises (the disk
\* is full) and ingest catches the error with every other exception
Write(record, ok) ==
    /\ ok \/ write_faults < MaxWriteFaults
    /\ IF ok
       THEN /\ out' = writer_write(out, record)
            /\ UNCHANGED <<write_faults, failed>>
       ELSE /\ out' = out
            /\ write_faults' = write_faults + 1
            /\ Caught(file_idx, "write")

\* the next file of the loop of ingest, and process_file up to its dispatch
\* on the extension
BeginFile ==
    /\ pc = "files"
    /\ file_idx < Len(inputs_list)
    /\ LET path == inputs_list[file_idx + 1]
           ext == lower(Files[path].suffix)
           file_id == Len(doc_ids) + 1
       IN  /\ file_idx' = file_idx + 1
           /\ doc_ids' = Append(doc_ids, file_id)
           /\ IF ~Files[path].readable
              THEN Caught(file_idx + 1, "hash")
              ELSE /\ UNCHANGED failed
                   /\ IF ext \in {".pdf"}
                      THEN /\ pc' = "pdf"
                           /\ locals' = [NoLocals EXCEPT !.file_id = file_id,
                                            !.file_hash = compute_file_sha256(path)]
                      ELSE IF ext \in {".xlsx", ".xls", ".xlsm"}
                      THEN /\ pc' = "excel"
                           /\ locals' = [NoLocals EXCEPT !.file_id = file_id,
                                            !.file_hash = compute_file_sha256(path)]
                      ELSE /\ pc' = "files"
                           /\ locals' = NoLocals
    /\ UNCHANGED <<input, secret, env_secret, max_chars_per_chunk, out_dir,
                   secret_value, inputs_list, writer_fh, out, write_faults,
                   exit_status>>
    /\ UNCHANGED <<file_lines, file_damaged>>
    /\ UNCHANGED not_cli_vars

\* the PDF branch asks for the next page: the extraction raises, or is
\* exhausted, or yields a page, which is skipped when empty and chunked otherwise
PdfPage ==
    /\ pc = "pdf"
    /\ LET path == inputs_list[file_idx]
           pages == Files[path].units
       IN  IF Files[path].raises_at = locals.unit_idx + 1
           THEN Caught(file_idx, "extract")
           ELSE IF locals.unit_idx = Len(pages)
           THEN Returned
           ELSE LET page_text == page_text_of(pages[locals.unit_idx + 1])
                    cs == chunk_text(page_text, max_chars_per_chunk)
                IN  /\ UNCHANGED failed
                    /\ IF page_text = <<>> \/ cs = <<>>
                       THEN /\ pc' = "pdf"
                            /\ locals' = [locals EXCEPT !.unit_idx = @ + 1]
                       ELSE /\ pc' = "chunks"
                            /\ locals' = [locals EXCEPT !.unit_idx = @ + 1,
                                             !.pending = cs, !.chunk_index = 0]
    /\ UNCHANGED <<input, secret, env_secret, max_chars_per_chunk, out_dir,
                   secret_value, inputs_list, writer_fh, out, file_idx, doc_ids,
                   write_faults, exit_status>>
    /\ UNCHANGED <<file_lines, file_damaged>>
    /\ UNCHANGED not_cli_vars

\* the next chunk of the page is anonymized and written
PdfChunk ==
    /\ pc = "chunks"
    /\ \E ok \in BOOLEAN :
          LET chunk == Head(locals.pending)
              anon == anonymize(secret_value, chunk)
              record == pdf_record(locals.file_id, inputs_list[file_idx],
                                   locals.file_hash, locals.unit_idx - 1,
                                   locals.chunk_index, anon)
          IN  /\ Write(record, ok)
              /\ ok => /\ locals' = [locals EXCEPT !.pending = Tail(@),
                                        !.chunk_index = @ + 1]
                       /\ pc' = IF Tail(locals.pending) = <<>> THEN "pdf" ELSE "chunks"
    /\ UNCHANGED <<input, secret, env_secret, max_chars_per_chunk, out_dir,
                   secret_value, inputs_list, writer_fh, file_idx, doc_ids,
                   exit_status>>
    /\ UNCHANGED <<file_lines, file_damaged>>
    /\ UNCHANGED not_cli_vars

\* the Excel branch takes the next line: the extraction raises, or the line is
\* buffered and the buffer is written once its running length reaches the bound
ExcelLine ==
    /\ pc = "excel"
    /\ locals.unit_idx < Len(Files[inputs_list[file_idx]].units)
    /\ \E ok \in BOOLEAN :
          LET path == inputs_list[file_idx]
              line == Files[path].units[locals.unit_idx + 1]
              buffer == IF line # <<>> THEN Append(locals.buffer, line)
                        ELSE locals.buffer
              current_len == IF line # <<>> THEN locals.current_len + Len(line) + 1
                             ELSE locals.current_len
              anon == anonymize(secret_value, join_lines(buffer))
              record == excel_record(locals.file_id, path, locals.file_hash,
                                     locals.chunk_counter, anon)
          IN  IF Files[path].raises_at = locals.unit_idx + 1
              THEN /\ ok
                   /\ Caught(file_idx, "extract")
                   /\ UNCHANGED <<out, write_faults>>
              ELSE IF current_len >= max_chars_per_chunk
              THEN /\ Write(record, ok)
                   /\ ok => /\ pc' = "excel"
                            /\ locals' = [locals EXCEPT !.unit_idx = @ + 1,
                                             !.buffer = <<>>, !.current_len = 0,
                                             !.chunk_counter = @ + 1]
              ELSE /\ ok
                   /\ pc' = "excel"
                   /\ locals' = [locals EXCEPT !.unit_idx = @ + 1,
                                    !.buffer = buffer, !.current_len = current_len]
                   /\ UNCHANGED <<out, write_faults, failed>>
    /\ UNCHANGED <<input, secret, env_secret, max_chars_per_chunk, out_dir,
                   secret_value, inputs_list, writer_fh, file_idx, doc_ids,
                   exit_status>>
    /\ UNCHANGED <<file_lines, file_damaged>>
    /\ UNCHANGED not_cli_vars

\* the lines are exhausted: what is left in the buffer is written, and
\* process_file returns
ExcelFinal ==
    /\ pc = "excel"
    /\ locals.unit_idx = Len(Files[inputs_list[file_idx]].units)
    /\ \E ok \in BOOLEAN :
          LET anon == anonymize(secret_value, join_lines(locals.buffer))
              record == excel_record(locals.file_id, inputs_list[file_idx],
                                     locals.file_hash, locals.chunk_counter, anon)
          IN  IF locals.buffer # <<>>
              THEN /\ Write(record, ok)
                   /\ ok => Returned
              ELSE /\ ok
                   /\ Returned
                   /\ UNCHANGED <<out, write_faults>>
    /\ UNCHANGED <<input, secret, env_secret, max_chars_per_chunk, out_dir,
                   secret_value, inputs_list, writer_fh, file_idx, doc_ids,
                   exit_status>>
    /\ UNCHANGED <<file_lines, file_damaged>>
    /\ UNCHANGED not_cli_vars

\* the first lines of the stream, up to all of them
truncated_readings(lines) == {SubSeq(lines, 1, n) : n \in 0..Len(lines)}

\* what a reader gets, line by line, from an output file whose compressed
\* data is cut short or has a hole: first lines of the stream, then lines
\* that were never written (any number of them) or none, and then an error
damaged_readings(lines) ==
    {[lines |-> t, damaged |-> d] :
        t \in truncated_readings(lines), d \in BOOLEAN}

\* what a reader gets from a file that holds all that was written
intact_reading(lines) == [lines |-> lines, damaged |-> FALSE]

\* the loop of ingest is over and the with statement calls
\* CompressedJsonlWriter.__exit__, which flushes the stream and closes it.
\* When both pass the command ends with status 0.  With the disk full the
\* flush raises, or the close does while it writes the trailer: the error
\* leaves ingest, which no handler catches.  A flush that raised leaves the
\* stream open and has lost the compressed bytes it was writing: the file is
\* cut short, or has a hole when the interpreter finalizes the stream with
\* room back.  A close that raised leaves the stream closed with all the
\* flushed data.  In each case a write that had raised, and was caught by
\* ingest, has left a hole in the file.
Finish ==
    /\ pc = "files"
    /\ file_idx = Len(inputs_list)
    /\ \E raised \in {"none", "flush", "close"} :
          /\ writer_fh' = IF raised = "flush" THEN "open" ELSE "closed"
          /\ exit_status' = IF raised = "none" THEN <<0>> ELSE <<1>>
          /\ pc' = IF raised = "none" THEN "done" ELSE "crashed"
          /\ \E reading \in IF write_faults > 0 \/ raised = "flush"
                            THEN damaged_readings(out)
                            ELSE {intact_reading(out)} :
                /\ file_lines' = reading.lines
                /\ file_damaged' = reading.damaged
    /\ UNCHANGED <<input, secret, env_secret, max_chars_per_chunk, out_dir,
                   secret_value, inputs_list, out, file_idx, doc_ids, locals,
                   failed, write_faults>>
    /\ UNCHANGED not_cli_vars

Next ==
    \/ IngestConfigError
    \/ IngestOpen
    \/ BeginFile
    \/ PdfPage
    \/ PdfChunk
    \/ ExcelLine
    \/ ExcelFinal
    \/ Finish

Spec == Init /\ [][Next]_vars

(* ------------------- SpecChunk: the chunker applied -------------------- *)

InitChunk ==
    /\ CliIdle
    /\ AnonIdle
    /\ GenIdle
    /\ text \in Texts
    /\ max_chars \in 1..MaxChars
    /\ chunks = <<>>
    /\ rejoined = <<>>
    /\ rechunked = <<>>
    /\ phase = "input"

\* chunks = list(chunk_text(text, max_chars))
Chunk ==
    /\ phase = "input"
    /\ chunks' = chunk_text(text, max_chars)
    /\ phase' = "chunked"
    /\ UNCHANGED <<text, max_chars, rejoined, rechunked>>
    /\ UNCHANGED not_chunk_vars

\* the chunks joined again by the paragraph separator (a blank line)
RECURSIVE rejoin(_)
rejoin(cs) ==
    IF cs = <<>> THEN <<>>
    ELSE IF Len(cs) = 1 THEN cs[1]
    ELSE cs[1] \o <<"\n", "\n">> \o rejoin(Tail(cs))

\* rechunked = list(chunk_text("\n\n".join(chunks), max_chars))
Rechunk ==
    /\ phase = "chunked"
    /\ rejoined' = rejoin(chunks)
    /\ rechunked' = chunk_text(rejoin(chunks), max_chars)
    /\ phase' = "rechunked"
    /\ UNCHANGED <<text, max_chars, chunks>>
    /\ UNCHANGED not_chunk_vars

NextChunk == Chunk \/ Rechunk

SpecChunk == InitChunk /\ [][NextChunk]_vars

(* ------------------ SpecAnon: the anonymizer applied ------------------- *)

\* the words the texts of SpecAnon are made of: an e-mail address, an IP
\* address after a blank, an e-mail address whose domain is an IP address,
\* a blank, and after a blank an e-mail address longer than its token
AnonWords == {<<"a", "@", "b", ".", "c">>,
              <<" ", "1", ".", "1", ".", "1", ".", "1">>,
              <<"a", "@", "1", ".", "1", ".", "1", ".", "1">>,
              <<" ">>,
              <<" ">> \o LongLocal \o <<"@", "b", ".", "c">>}

RECURSIVE WordTexts(_)
WordTexts(n) ==
    IF n = 0 THEN {<<>>}
    ELSE {t \o w : t \in WordTexts(n - 1), w \in AnonWords}

AnonTexts == UNION {WordTexts(n) : n \in 0..MaxWords}

InitAnon ==
    /\ CliIdle
    /\ ChunkIdle
    /\ GenIdle
    /\ raw_text \in AnonTexts
    /\ segments = <<>>
    /\ anonymized = [text |-> <<>>, entities |-> <<>>]
    /\ anon_phase = "input"

\* anonymized = Anonymizer("k1").anonymize(raw_text); segments is the list the
\* substitution loop of the call walked
Anonymize ==
    /\ anon_phase = "input"
    /\ segments' = IF raw_text = <<>> THEN <<>>
                   ELSE replaced_segments("k1", raw_text)
    /\ anonymized' = anonymize("k1", raw_text)
    /\ anon_phase' = "anonymized"
    /\ UNCHANGED raw_text
    /\ UNCHANGED not_anon_vars

NextAnon == Anonymize

SpecAnon == InitAnon /\ [][NextAnon]_vars

(* --------------- SpecGen: chunk_text run step by step ------------------ *)

\* a slice index as Python reads it: counted from the end when negative, and
\* clamped to 0..n
PyIndex(n, i) ==
    IF i < 0 THEN (IF i + n < 0 THEN 0 ELSE i + n)
    ELSE IF i > n THEN n ELSE i

\* s[a:b]
PySlice(s, a, b) == SubSeq(s, PyIndex(Len(s), a) + 1, PyIndex(Len(s), b))

InitGen ==
    /\ CliIdle
    /\ ChunkIdle
    /\ AnonIdle
    /\ \E s \in UNION {TextsOfLen(n) : n \in 0..MaxStepLen} :
       \E max \in (-MaxNegChars)..MaxChars :
           gen = GenFrame(s, max)

\* the call up to the loop over the paragraphs: an empty text returns at once
GenStart ==
    /\ gen.pc = "start"
    /\ gen' = IF gen.text = <<>> THEN [gen EXCEPT !.pc = "done"]
              ELSE [gen EXCEPT !.pc = "for", !.paragraphs = paragraphs(gen.text)]
    /\ UNCHANGED not_gen_vars

\* lines 38-39: the paragraph is appended to the buffer
buffer_para(g, para) ==
    [g EXCEPT !.current = Append(@, para),
              !.current_len = @ + Len(para) + (IF @ > 0 THEN 2 ELSE 0)]

\* lines 20-21 of flush(): the buffer is emptied
empty_buffer(g) == [g EXCEPT !.current = <<>>, !.current_len = 0]

\* whether flush() has something to yield at line 19
flush_yields(g) == g.current # <<>> /\ strip(join(g.current)) # <<>>

\* the frame suspended at a yield: the chunk is handed out
yielded(g, chunk, at) == [g EXCEPT !.out = Append(@, chunk), !.pc = at]

\* the paragraph the loop body is working on
GenPara == gen.paragraphs[gen.para_idx]

\* end and piece of the current iteration of the hard-split loop
GenEnd ==
    IF gen.start + gen.max_chars < Len(GenPara)
    THEN gen.start + gen.max_chars ELSE Len(GenPara)

GenPiece == PySlice(GenPara, gen.start, GenEnd)

\* "for para in paragraphs": the next paragraph enters the hard-split loop
\* when it is longer than max_chars; otherwise it is buffered, after a flush
\* when the buffer would grow past max_chars, and the flush suspends the
\* generator at its yield (line 19).  After the last paragraph comes the
\* final flush.
GenFor ==
    /\ gen.pc = "for"
    /\ gen' = IF gen.para_idx = Len(gen.paragraphs)
              THEN [gen EXCEPT !.pc = "final"]
              ELSE LET para == gen.paragraphs[gen.para_idx + 1]
                       g == [gen EXCEPT !.para_idx = @ + 1]
                   IN  IF Len(para) > gen.max_chars
                       THEN [g EXCEPT !.pc = "while", !.start = 0, !.iters = 0]
                       ELSE IF gen.current_len + Len(para)
                               + (IF gen.current # <<>> THEN 2 ELSE 0)
                               > gen.max_chars
                       THEN IF flush_yields(g)
                            THEN yielded(g, strip(join(g.current)), "flush37")
                            ELSE buffer_para(empty_buffer(g), para)
                       ELSE buffer_para(g, para)
    /\ UNCHANGED not_gen_vars

\* the generator is resumed in the flush() of line 37: the buffer is emptied
\* and the paragraph appended
GenResumeFlush37 ==
    /\ gen.pc = "flush37"
    /\ gen' = [buffer_para(empty_buffer(gen), GenPara) EXCEPT !.pc = "for"]
    /\ UNCHANGED not_gen_vars

\* one iteration of "while start < len(para)" up to its first yield: a blank
\* piece is skipped and start moves on; otherwise the generator is suspended
\* in the flush() of line 32 when a buffer is pending, or at the yield of the
\* piece (line 33).  iters counts the iterations of this loop that have
\* ended, and the model follows at most MaxIters of them.
GenWhileBody ==
    /\ gen.pc = "while"
    /\ gen.start < Len(GenPara)
    /\ gen.iters < MaxIters
    /\ gen' = IF strip(GenPiece) = <<>>
              THEN [gen EXCEPT !.start = GenEnd, !.iters = @ + 1]
              ELSE IF gen.current # <<>>
              THEN IF flush_yields(gen)
                   THEN yielded(gen, strip(join(gen.current)), "flush32")
                   ELSE yielded(empty_buffer(gen), GenPiece, "piece33")
              ELSE yielded(gen, GenPiece, "piece33")
    /\ UNCHANGED not_gen_vars

\* the generator is resumed in the flush() of line 32: the buffer is emptied
\* and the piece is yielded
GenResumeFlush32 ==
    /\ gen.pc = "flush32"
    /\ gen' = yielded(empty_buffer(gen), GenPiece, "piece33")
    /\ UNCHANGED not_gen_vars

\* the generator is resumed after the yield of the piece: start = end, and
\* the iteration has ended
GenResumePiece33 ==
    /\ gen.pc = "piece33"
    /\ gen' = [gen EXCEPT !.start = GenEnd, !.iters = @ + 1, !.pc = "while"]
    /\ UNCHANGED not_gen_vars

\* the loop condition fails: continue with the next paragraph
GenWhileExit ==
    /\ gen.pc = "while"
    /\ ~(gen.start < Len(GenPara))
    /\ gen' = [gen EXCEPT !.pc = "for"]
    /\ UNCHANGED not_gen_vars

\* the final flush: what is left in the buffer is yielded (line 43), or the
\* generator is exhausted
GenFinal ==
    /\ gen.pc = "final"
    /\ gen' = IF gen.current # <<>>
              THEN yielded(gen, strip(join(gen.current)), "final43")
              ELSE [gen EXCEPT !.pc = "done"]
    /\ UNCHANGED not_gen_vars

\* the generator is resumed after its last yield and is exhausted
GenResumeFinal ==
    /\ gen.pc = "final43"
    /\ gen' = [gen EXCEPT !.pc = "done"]
    /\ UNCHANGED not_gen_vars

NextGen ==
    \/ GenStart
    \/ GenFor
    \/ GenResumeFlush37
    \/ GenWhileBody
    \/ GenResumeFlush32
    \/ GenResumePiece33
    \/ GenWhileExit
    \/ GenFinal
    \/ GenResumeFinal

SpecGen == InitGen /\ [][NextGen]_vars

(* ----------------------- claims on the chunker ------------------------- *)

HasSep(c) == \E i \in 1..Len(c) : IsSepAt(c, i)

NonBlank(s) == \E i \in 1..Len(s) : s[i] \notin Whitespace

\* no paragraph of the text is longer than max_chars: no hard split happens
NoHardSplit == \A i \in 1..Len(paragraphs(text)) :
                   Len(paragraphs(text)[i]) <= max_chars

\* the ceil(L / max) consecutive slices of para, each of max characters
\* except possibly the last
Pieces(para, max) ==
    [k \in 1..((Len(para) + max - 1) \div max) |->
        SubSeq(para, (k - 1) * max + 1,
               IF k * max < Len(para) THEN k * max ELSE Len(para))]

IsPrefix(a, b) == Len(a) <= Len(b) /\ SubSeq(b, 1, Len(a)) = a

\* C3: every chunk chunk_text yields has at most max_chars characters,
\* whether it is a buffer flush, a hard-split piece or the final flush
C3_ChunkLengthBound ==
    /\ \A i \in 1..Len(chunks) : Len(chunks[i]) <= max_chars
    /\ \A i \in 1..Len(rechunked) : Len(rechunked[i]) <= max_chars

\* a buffer of two paragraphs that fills the bound exactly, next to another chunk
C3_Witness ==
    /\ phase = "chunked"
    /\ Len(chunks) >= 2
    /\ \E i \in 1..Len(chunks) : Len(chunks[i]) = max_chars /\ HasSep(chunks[i])

\* C4 as stated: chunking the chunks joined by a blank line gives the same
\* chunks, hard-split pieces included
C4_Idempotent_Original == phase = "rechunked" => rechunked = chunks

\* C4, amended: when no paragraph of the text is longer than max_chars (no
\* hard split), chunking the chunks joined by a blank line gives the same chunks
C4_Idempotent_NoHardSplit ==
    (phase = "rechunked" /\ NoHardSplit) => rechunked = chunks

\* three paragraphs, two of them buffered into one chunk, chunked again
C4_Witness ==
    /\ phase = "rechunked"
    /\ NoHardSplit
    /\ Len(chunks) >= 2
    /\ \E i \in 1..Len(chunks) : HasSep(chunks[i])
    /\ rejoined # text

\* C5 as stated: every non-empty text, whitespace-only texts included, yields
\* at least one chunk
C5_AtLeastOne_Original == (phase # "input" /\ text # <<>>) => Len(chunks) >= 1

\* C5, amended: every text with at least one non-whitespace character yields
\* at least one chunk
C5_AtLeastOne_NonBlank == (phase # "input" /\ NonBlank(text)) => Len(chunks) >= 1

\* a text that starts with a whitespace-only paragraph and has one chunk
C5_Witness ==
    /\ phase = "chunked"
    /\ NonBlank(text)
    /\ Len(split(normalize(text))) >= 2
    /\ ~NonBlank(split(normalize(text))[1])
    /\ Len(chunks) = 1

\* what the k-th paragraph adds to the yielded chunks, given the pieces of it
\* that are to be yielded: the pending buffer flushed as one chunk, then the pieces
HardSplitYields(k, pieces) ==
    LET paras == paragraphs(text)
        before == para_loop(paras, k - 1, max_chars)
        after == para_loop(paras, k, max_chars)
    IN  /\ after.out = before.out
                       \o (IF before.current # <<>>
                           THEN <<rejoin(before.current)>> ELSE <<>>)
                       \o pieces
        /\ after.current = <<>>
        /\ phase # "input" => IsPrefix(after.out, chunks)

\* C6 as stated: a paragraph longer than max_chars makes chunk_text flush the
\* pending buffer and then yield all ceil(L / max_chars) pieces of it
C6_HardSplit_Original ==
    phase # "input" => \A k \in 1..Len(paragraphs(text)) :
        Len(paragraphs(text)[k]) > max_chars =>
            HardSplitYields(k, Pieces(paragraphs(text)[k], max_chars))

\* C6, amended: a paragraph longer than max_chars makes chunk_text flush the
\* pending buffer and then yield, in order, those of its ceil(L / max_chars)
\* pieces that are not whitespace only
C6_HardSplit_NonBlankPieces ==
    phase # "input" => \A k \in 1..Len(paragraphs(text)) :
        Len(paragraphs(text)[k]) > max_chars =>
            HardSplitYields(k, SelectSeq(Pieces(paragraphs(text)[k], max_chars),
                                         NonBlank))

\* a long paragraph after a buffered one, cut into three pieces or more, one
\* of them whitespace only
C6_Witness ==
    /\ phase = "chunked"
    /\ \E k \in 1..Len(paragraphs(text)) :
          LET para == paragraphs(text)[k]
              ps == Pieces(para, max_chars)
          IN  /\ Len(para) > max_chars
              /\ para_loop(paragraphs(text), k - 1, max_chars).current # <<>>
              /\ \E i \in 1..Len(ps) : ~NonBlank(ps[i])
              /\ Len(ps) >= 3

(* ----------------------- claims on a run of ingest --------------------- *)

\* the place in the loop of ingest of the file a record was written for
FileOf(r) == CHOOSE k \in 1..Len(doc_ids) : doc_ids[k] = r.doc_id

\* C1: a file whose process_file raised while extracting has no record in the
\* output, and the loop still takes every other file
C1_FailureIsolation ==
    /\ \A f \in failed :
          f.cause \in {"hash", "extract"} =>
              \A i \in 1..Len(out) : out[i].doc_id # doc_ids[f.idx]
    /\ pc = "done" => Len(doc_ids) = Len(inputs_list)

\* C2: once a write has raised, no further record is written and no further
\* file is taken
C2_WriteErrorAborts ==
    [][write_faults > 0 => (out' = out /\ file_idx' = file_idx)]_vars

\* C7: the text of every PDF record is a chunk that chunk_text yields for the
\* page's text after redaction, so it is no longer than max_chars_per_chunk
C7_RedactThenChunk ==
    \A i \in 1..Len(out) :
        out[i].file_type = "pdf" =>
            LET raw == Files[out[i].source_path].units[out[i].page_number]
                redacted == anonymize(secret_value, page_text_of(raw)).text
                cs == chunk_text(redacted, max_chars_per_chunk)
            IN  /\ out[i].chunk_index + 1 <= Len(cs)
                /\ out[i].text = cs[out[i].chunk_index + 1]
                /\ Len(out[i].text) <= max_chars_per_chunk

\* the record has the fields named, with the identifier under id_field
RecordHasSchema(r, id_field) ==
    /\ DOMAIN r = {id_field, "source_path", "file_sha256", "file_type",
                   "page_number", "chunk_index", "text", "entities"}
    /\ r.file_type \in {"pdf", "excel"}
    /\ r.file_type = "pdf" => r.page_number \in Int
    /\ r.file_type = "excel" => r.page_number = None
    /\ r.chunk_index \in Nat
    /\ \A k \in 1..Len(r.entities) : DOMAIN r.entities[k] = {"type", "start", "end"}

\* C8 as stated: every record written has the fields of the schema, the
\* identifier being document_id
C8_Schema_Original ==
    \A i \in 1..Len(out) : RecordHasSchema(out[i], "document_id")

\* C8, amended: every record written has exactly the fields doc_id,
\* source_path, file_sha256, file_type, page_number, chunk_index, text and
\* entities; file_type is "pdf" or "excel", page_number an integer for pdf and
\* null for excel, chunk_index >= 0, each entity has exactly type, start, end
C8_Schema_DocId ==
    \A i \in 1..Len(out) : RecordHasSchema(out[i], "doc_id")

\* records of both kinds have been written, one of them with an entity
C8_Witness ==
    /\ \E i \in 1..Len(out) : out[i].file_type = "pdf" /\ out[i].entities # <<>>
    /\ \E i \in 1..Len(out) : out[i].file_type = "excel"

\* the supported files a path of --input leads to
SupportedUnder(path) ==
    {p \in (IF is_file(path) THEN {path} ELSE rglob(path)) :
        lower(Files[p].suffix) \in SUPPORTED_EXTS}

\* the command line has no secret, or leads to no supported file
ConfigErrorCase ==
    \/ ~Truthy(secret) /\ ~Truthy(env_secret)
    \/ \A k \in 1..Len(input) : SupportedUnder(input[k]) = {}

\* C9: with the secret missing or no input file found, ingest exits with
\* status 2, which no other run ends with (a run that opened the output ends
\* with 0, or with 1 when closing it raised), and the output is never opened
\* nor written
C9_ConfigErrorsFatal ==
    /\ ConfigErrorCase =>
          /\ writer_fh = "none"
          /\ out = <<>>
          /\ pc # "start" => (pc = "exit" /\ exit_status = <<2>>)
    /\ ~ConfigErrorCase => exit_status \in {<<>>, <<0>>, <<1>>}

\* a run with a secret that found no supported file and has exited
C9_Witness ==
    /\ pc = "exit"
    /\ Truthy(secret_or_env)
    /\ exit_status = <<2>>
    /\ writer_fh = "none"

\* the records of a file are together, and the files are in discovery order;
\* when the command has ended with status 0 the lines of the file are the
\* lines written, none removed or rewritten
BlocksInOrder ==
    /\ \A i \in 1..Len(out) : out[i].source_path = inputs_list[FileOf(out[i])]
    /\ \A i, j \in 1..Len(out) : i < j => FileOf(out[i]) <= FileOf(out[j])
    /\ pc = "done" => file_lines = out /\ ~file_damaged

\* a step leaves the lines alone or appends one, for the file in progress;
\* the next file is taken only when no file is in progress
AppendStep ==
    /\ \/ out' = out
       \/ /\ Len(out') = Len(out) + 1
          /\ SubSeq(out', 1, Len(out)) = out
          /\ out'[Len(out')].doc_id = doc_ids[file_idx]
          /\ pc \in {"chunks", "excel"}
    /\ file_idx' # file_idx =>
          /\ pc = "files" /\ locals = NoLocals
          /\ file_idx' = file_idx + 1

\* C10: the lines of the output only grow by appending and none is rewritten
\* or removed, the records of each file form one block, the blocks are in
\* discovery order, and a file is taken only when the one before is finished
C10_AppendOrder == [](BlocksInOrder) /\ [][AppendStep]_vars

(* ---------------------- claims on the anonymizer ----------------------- *)

\* the spans [start, end) of the entities are pairwise disjoint
NonOverlapping(ents) ==
    \A i, j \in 1..Len(ents) :
        i # j => ents[i].end <= ents[j].start \/ ents[j].end <= ents[i].start

\* s with the span of each of the entities i.. (ascending, disjoint) replaced
\* by its token, and the characters from offset pos on that lie outside the
\* spans kept in order
RECURSIVE Spliced(_, _, _, _, _)
Spliced(secret_key, s, ents, i, pos) ==
    IF i > Len(ents) THEN Slice(s, pos, Len(s))
    ELSE Slice(s, pos, ents[i].start)
         \o stable_token(secret_key, ents[i].type,
                         Slice(s, ents[i].start, ents[i].end))
         \o Spliced(secret_key, s, ents, i + 1, ents[i].end)

SpanLen(e) == e.end - e.start

\* C11: anonymize applies the replacements in descending order of start
\* offset, and when the matches are pairwise non-overlapping the returned
\* text is the original text with each matched span replaced by its token
\* and every other character kept in order, whether the token is longer or
\* shorter than the span.
C11_DescendingReplacement ==
    anon_phase = "anonymized" =>
        /\ \A i \in 1..(Len(segments) - 1) :
               segments[i].start >= segments[i + 1].start
        /\ Len(segments) = Len(anonymized.entities)
        /\ NonOverlapping(anonymized.entities) =>
               anonymized.text
                   = Spliced("k1", raw_text, anonymized.entities, 1, 0)

\* three disjoint matches of two categories were replaced, one of them longer
\* than its token and one shorter
C11_Witness ==
    /\ anon_phase = "anonymized"
    /\ Len(segments) = 3
    /\ NonOverlapping(anonymized.entities)
    /\ \E i, j \in 1..3 :
           anonymized.entities[i].type # anonymized.entities[j].type
    /\ \E i, j \in 1..3 :
           /\ SpanLen(segments[i]) > Len(segments[i].token)
           /\ SpanLen(segments[j]) < Len(segments[j].token)
    /\ anonymized.text # raw_text

(* -------------------- claims on the chunk numbering -------------------- *)

\* two records of the same unit: the same document and, for a PDF, the same
\* page (the records of an Excel document all have page_number None)
SameUnit(r, q) == r.doc_id = q.doc_id /\ r.page_number = q.page_number

\* the records written before record i for the unit of record i
EarlierOfUnit(i) == {j \in 1..(i - 1) : SameUnit(out[j], out[i])}

\* the chunk_index of each record is the number of records already written
\* for its unit: the indexes of a unit are 0, 1, ..., n-1 in write order
IndexesCountUp ==
    \A i \in 1..Len(out) : out[i].chunk_index = Cardinality(EarlierOfUnit(i))

\* the running length of a buffer of lines: each line and its separator
RECURSIVE BufferedLen(_)
BufferedLen(buffer) ==
    IF buffer = <<>> THEN 0
    ELSE Len(buffer[1]) + 1 + BufferedLen(Tail(buffer))

\* between two lines the Excel buffer is below the bound
BufferBelowBound ==
    pc = "excel" => BufferedLen(locals.buffer) < max_chars_per_chunk

\* the step wrote one more record, holding these lines
Emitted(lines) ==
    /\ Len(out') = Len(out) + 1
    /\ SubSeq(out', 1, Len(out)) = out
    /\ out'[Len(out')].file_type = "excel"
    /\ out'[Len(out')].text = anonymize(secret_value, join_lines(lines)).text

\* a step of the Excel branch: after a line, a record is written exactly when
\* the buffered length has reached the bound; after the last line, exactly
\* when the buffer is not empty.  A step that raised writes nothing.
ExcelEmitStep ==
    pc = "excel" =>
        LET lines == Files[inputs_list[file_idx]].units
            raised == failed' # failed
        IN  IF locals.unit_idx < Len(lines)
            THEN LET buffer == Append(locals.buffer, lines[locals.unit_idx + 1])
                     reached == BufferedLen(buffer) >= max_chars_per_chunk
                 IN  /\ raised \/ ~reached => out' = out
                     /\ ~raised /\ reached =>
                            Emitted(buffer) /\ locals'.buffer = <<>>
                     /\ ~raised /\ ~reached => locals'.buffer = buffer
            ELSE /\ raised \/ locals.buffer = <<>> => out' = out
                 /\ ~raised /\ locals.buffer # <<>> => Emitted(locals.buffer)
                 /\ ~raised => pc' = "files"

\* C12: for every document and every unit of it (a PDF page, the whole
\* workbook) the chunk_index values of the unit's records are 0, 1, ..., n-1 in
\* write order, restarting at 0 for each unit; the Excel branch writes a
\* record exactly when the running buffered length reaches
\* max_chars_per_chunk, and one last record for a non-empty remaining buffer.
C12_ChunkIndexNumbering ==
    /\ [](IndexesCountUp /\ BufferBelowBound)
    /\ [][ExcelEmitStep]_vars

\* a finished run that wrote a second chunk of a PDF page, then chunk 0 of a
\* later page of the same document, and a second record of a workbook
C12_Witness ==
    /\ pc = "done"
    /\ \E i, j \in 1..Len(out) :
           /\ i < j
           /\ out[i].file_type = "pdf" /\ out[i].chunk_index >= 1
           /\ out[j].doc_id = out[i].doc_id
           /\ out[j].page_number > out[i].page_number
           /\ out[j].chunk_index = 0
    /\ \E i \in 1..Len(out) :
           out[i].file_type = "excel" /\ out[i].chunk_index >= 1

(* ------------------- claims on the chunker's termination --------------- *)

\* run step by step with a positive max_chars, the call yields what
\* chunk_text gives
GenAgreesWithChunkText ==
    gen.pc = "done" /\ gen.max_chars >= 1 =>
        gen.out = chunk_text(gen.text, gen.max_chars)

\* with a positive max_chars every iteration of the hard-split loop advances
\* start, and the loop ends within len(para) iterations
PositiveMaxAdvances ==
    /\ [](gen.pc = "while" /\ gen.max_chars >= 1 =>
              gen.iters <= gen.start /\ gen.start <= Len(gen.paragraphs[gen.para_idx]))
    /\ [][gen'.iters > gen.iters /\ gen.max_chars >= 1 =>
              gen'.start > gen.start]_vars

\* with max_chars at or below zero the hard-split loop, once entered, is never
\* left: start stays below len(para)
NonPositiveMaxNeverExits ==
    gen.pc = "while" /\ gen.max_chars <= 0 =>
        gen.start <= 0 /\ gen.start < Len(gen.paragraphs[gen.para_idx])

\* C13: for every text and every integer max_chars the caller can pass,
\* chunk_text terminates: every iteration of the hard-split loop advances its
\* start position.
C13_HardSplitAdvances ==
    [][gen'.iters > gen.iters => gen'.start > gen.start]_vars

====
